---- MODULE Spec2Model ----
(***************************************************************************)
(* Model of src/app/_lib/queries.ts: the paginated task query (getTasks)   *)
(* and the four cached aggregate counters, over a task table that          *)
(* concurrent writers change.                                              *)
(*                                                                         *)
(* Values.  A JavaScript string is a sequence of atoms; the atom "." is    *)
(* the delimiter character, every other atom stands for a run of ordinary  *)
(* characters.  An optional value is << >> (undefined) or <<v>>.           *)
(***************************************************************************)
EXTENDS Integers, Sequences, FiniteSets, TLC

VARIABLES
    tasks,        \* the task table: a set of rows
    isolation,    \* isolation level the storage gives a plain db.transaction
    pc,           \* position of the getTasks call in flight
    input,        \* its request
    snapshot,     \* table state its transaction saw at its first statement
    data,         \* rows fetched by the first statement
    total,        \* count fetched by the second statement
    countSource,  \* table state the count statement read
    result,       \* what getTasks gave its caller
    cacheStore,   \* unstable_cache: key -> << >> or <<entry>>
    now,          \* wall clock, seconds
    last          \* the last aggregate call or invalidation, and its outcome

vars == <<tasks, isolation, pc, input, snapshot, data, total, countSource, result,
          cacheStore, now, last>>

taskVars == <<pc, input, snapshot, data, total, countSource, result>>
cacheVars == <<cacheStore, now, last>>

----------------------------------------------------------------------------
(* Bounds *)

MaxTasks == 3
MaxCounted == 2
MaxPage == 2
MaxPerPage == 2
MaxTime == 1350

----------------------------------------------------------------------------
(* Optional values and strings *)

Undefined == << >>
Some(v) == <<v>>
IsDefined(o) == o # Undefined
Get(o) == o[1]

\* JavaScript truthiness of an optional string: undefined and "" are falsy.
Truthy(o) == IsDefined(o) /\ Get(o) # << >>

\* String.prototype.split(d): the segments between delimiters.
RECURSIVE Split(_, _)
Split(s, d) ==
    IF \A i \in 1..Len(s) : s[i] # d
    THEN <<s>>
    ELSE LET k == CHOOSE i \in 1..Len(s) :
                      s[i] = d /\ \A j \in 1..(i - 1) : s[j] # d
         IN  <<SubSeq(s, 1, k - 1)>> \o Split(SubSeq(s, k + 1, Len(s)), d)

\* Array.prototype.filter(Boolean) over strings: drops the empty ones.
FilterBoolean(xs) == SelectSeq(xs, LAMBDA x : x # << >>)

\* xs[i] of a JavaScript array: undefined past the end.
At(xs, i) == IF i <= Len(xs) THEN Some(xs[i]) ELSE Undefined

Range(f) == {f[i] : i \in DOMAIN f}

----------------------------------------------------------------------------
(* The task table *)

TaskColumns == {"id", "title", "status", "priority", "createdAt"}
StatusValues == {"todo", "done"}
PriorityValues == {"low", "high"}

\* The rows writers may insert.  Identifier order differs from creation
\* order, and two rows share a creation time.
Catalogue ==
    << [id |-> 1, title |-> <<"a", "b">>, status |-> "todo", priority |-> "low",
        createdAt |-> 2],
       [id |-> 2, title |-> <<"b">>, status |-> "todo", priority |-> "high",
        createdAt |-> 1],
       [id |-> 3, title |-> <<"a">>, status |-> "done", priority |-> "high",
        createdAt |-> 2],
       [id |-> 4, title |-> <<"b", "a">>, status |-> "done", priority |-> "low",
        createdAt |-> 3],
       [id |-> 5, title |-> <<"b", "b">>, status |-> "todo", priority |-> "low",
        createdAt |-> 3] >>

Pool == {Catalogue[i] : i \in 1..MaxTasks}

\* The rows present while the aggregates are counted.
CountedPool == {Catalogue[i] : i \in 1..MaxCounted}

Min(a, b) == IF a <= b THEN a ELSE b

----------------------------------------------------------------------------
(* Boolean expressions over rows (drizzle-orm SQL conditions) *)

\* filterColumn of @/lib/filter-column: an enumerated column matches any of
\* the "."-separated candidates, a text column matches on a substring.
FilterColumn(column, value, isSelectable) ==
    IF isSelectable
    THEN [kind |-> "inArray", column |-> column,
          values |-> Range(FilterBoolean(Split(value, ".")))]
    ELSE [kind |-> "ilike", column |-> column, pattern |-> value]

Gte(column, value) == [kind |-> "gte", column |-> column, value |-> value]
Lte(column, value) == [kind |-> "lte", column |-> column, value |-> value]

\* and(...conditions) / or(...conditions): undefined conditions are dropped;
\* no condition left gives undefined, one condition gives that condition.
Present(expressions) ==
    LET kept == SelectSeq(expressions, IsDefined)
    IN  [i \in 1..Len(kept) |-> Get(kept[i])]

And(expressions) ==
    LET conditions == Present(expressions)
    IN  IF Len(conditions) = 0 THEN Undefined
        ELSE IF Len(conditions) = 1 THEN Some(conditions[1])
        ELSE Some([kind |-> "and", args |-> conditions])

Or(expressions) ==
    LET conditions == Present(expressions)
    IN  IF Len(conditions) = 0 THEN Undefined
        ELSE IF Len(conditions) = 1 THEN Some(conditions[1])
        ELSE Some([kind |-> "or", args |-> conditions])

\* s occurs in t as a contiguous run.
Contains(t, s) ==
    \E i \in 0..(Len(t) - Len(s)) : SubSeq(t, i + 1, i + Len(s)) = s

RECURSIVE Eval(_, _)
Eval(e, row) ==
    CASE e.kind = "inArray" -> <<row[e.column]>> \in e.values
      [] e.kind = "ilike"   -> Contains(row[e.column], e.pattern)
      [] e.kind = "gte"     -> row[e.column] >= e.value
      [] e.kind = "lte"     -> row[e.column] <= e.value
      [] e.kind = "and"     -> \A i \in 1..Len(e.args) : Eval(e.args[i], row)
      [] e.kind = "or"      -> \E i \in 1..Len(e.args) : Eval(e.args[i], row)

\* .where(where) over a table state: undefined applies no filter.
Matching(table, where) ==
    {row \in table : IsDefined(where) => Eval(Get(where), row)}

----------------------------------------------------------------------------
(* getTasks: the composed query *)

\* new Date(string) for the date strings requests carry.
NewDate(s) ==
    CASE s = <<"1970-01-01">> -> 1
      [] s = <<"1970-01-02">> -> 2
      [] s = <<"1970-01-03">> -> 3

Offset(in) == (in.page - 1) * in.per_page

SortParts(in) ==
    IF IsDefined(in.sort)
    THEN FilterBoolean(Split(Get(in.sort), "."))
    ELSE << <<"createdAt">>, <<"desc">> >>

Column(in) == At(SortParts(in), 1)
Order(in) == At(SortParts(in), 2)

FromDate(in) == IF Truthy(in.from) THEN Some(NewDate(Get(in.from))) ELSE Undefined
ToDate(in) == IF Truthy(in.to) THEN Some(NewDate(Get(in.to))) ELSE Undefined

Expressions(in) ==
    << IF Truthy(in.title)
         THEN Some(FilterColumn("title", Get(in.title), FALSE)) ELSE Undefined,
       IF Truthy(in.status)
         THEN Some(FilterColumn("status", Get(in.status), TRUE)) ELSE Undefined,
       IF Truthy(in.priority)
         THEN Some(FilterColumn("priority", Get(in.priority), TRUE)) ELSE Undefined,
       IF IsDefined(FromDate(in))
         THEN Some(Gte("createdAt", Get(FromDate(in)))) ELSE Undefined,
       IF IsDefined(ToDate(in))
         THEN Some(Lte("createdAt", Get(ToDate(in)))) ELSE Undefined >>

\* A composer that ignores the combinator.
WhereMutant(in) == And(Expressions(in))

Where(in) ==
    IF ~Truthy(in.operator) \/ in.operator = Some(<<"and">>)
    THEN And(Expressions(in))
    ELSE Or(Expressions(in))

\* column && column in tasks
InTasks(column) ==
    IsDefined(column) /\ \E c \in TaskColumns : Get(column) = <<c>>

OrderBy(in) ==
    IF InTasks(Column(in))
    THEN [column |-> Get(Column(in))[1],
          dir |-> IF Order(in) = Some(<<"asc">>) THEN "asc" ELSE "desc"]
    ELSE [column |-> "id", dir |-> "desc"]

\* Storage order of column values: numbers, text, enumerations.
AtomRank(a) == CASE a = "a" -> 1 [] a = "b" -> 2
EnumRank(v) ==
    CASE v = "todo" -> 1 [] v = "done" -> 2 [] v = "low" -> 1 [] v = "high" -> 2

RECURSIVE TextLeq(_, _)
TextLeq(s, t) ==
    IF s = << >> THEN TRUE
    ELSE IF t = << >> THEN FALSE
    ELSE IF s[1] # t[1] THEN AtomRank(s[1]) < AtomRank(t[1])
    ELSE TextLeq(Tail(s), Tail(t))

Leq(column, x, y) ==
    IF column = "title" THEN TextLeq(x, y)
    ELSE IF column \in {"status", "priority"} THEN EnumRank(x) <= EnumRank(y)
    ELSE x <= y

SortedBy(rows, ob) ==
    \A i, j \in 1..Len(rows) :
        i < j => IF ob.dir = "asc"
                 THEN Leq(ob.column, rows[i][ob.column], rows[j][ob.column])
                 ELSE Leq(ob.column, rows[j][ob.column], rows[i][ob.column])

\* Every order the storage may return the set in under ORDER BY ob: rows
\* with equal keys come in any order.
Orderings(rows, ob) ==
    {s \in [1..Cardinality(rows) -> rows] :
        /\ \A i, j \in 1..Cardinality(rows) : i # j => s[i] # s[j]
        /\ SortedBy(s, ob)}

\* .limit(limit).offset(offset)
LimitOffset(rows, limit, offset) ==
    SubSeq(rows, offset + 1, Min(offset + limit, Len(rows)))

\* Math.floor in place of Math.ceil.
PageCountMutant(n, perPage) == n \div perPage

\* Math.ceil(total / per_page)
PageCount(n, perPage) ==
    IF n % perPage = 0 THEN n \div perPage ELSE (n \div perPage) + 1

\* A catch block that rethrows.
GetTasksCatchMutant(err) == [outcome |-> "thrown", error |-> err]

\* The catch block: every exception raised inside the try ends here.
GetTasksCatch(err) == [outcome |-> "returned", data |-> << >>, pageCount |-> 0]

\* Isolation levels a storage engine may give a transaction that asks for
\* none: per-statement snapshots, or one snapshot for the transaction.
IsolationLevels == {"read committed", "repeatable read"}

\* The table state a statement of the open transaction reads.
TxRead ==
    IF isolation = "repeatable read" /\ IsDefined(snapshot)
    THEN Get(snapshot)
    ELSE tasks

PageInputs == 1..MaxPage
PerPageInputs == 1..MaxPerPage
SortInputs ==
    {Undefined, Some(<< >>), Some(<<"title", ".", "asc">>), Some(<<"title">>),
     Some(<<"nope", ".", "asc">>)}
TitleInputs == {Undefined, Some(<<"a">>)}
StatusInputs == {Undefined, Some(<<"done", ".", "nope">>)}
PriorityInputs == {Undefined, Some(<<"high">>)}
FromInputs == {Undefined, Some(<<"1970-01-02">>)}
ToInputs == {Undefined, Some(<<"1970-01-02">>)}
OperatorInputs == {Undefined, Some(<<"and">>), Some(<<"or">>), Some(<<"xor">>)}

\* Requests: every combination of filters and combinator under the default
\* sort, and every sort and page size with at most the title filter.
FilterRequests ==
    [page : PageInputs, per_page : {MaxPerPage}, sort : {Undefined},
     title : TitleInputs, status : StatusInputs, priority : PriorityInputs,
     from : FromInputs, to : ToInputs, operator : OperatorInputs]

SortRequests ==
    [page : PageInputs, per_page : PerPageInputs, sort : SortInputs,
     title : TitleInputs, status : {Undefined}, priority : {Undefined},
     from : {Undefined}, to : {Undefined}, operator : {Undefined}]

Requests == FilterRequests \cup SortRequests

NoRequest ==
    [page |-> 1, per_page |-> 1, sort |-> Undefined, title |-> Undefined,
     status |-> Undefined, priority |-> Undefined, from |-> Undefined,
     to |-> Undefined, operator |-> Undefined]

NoResult == [outcome |-> "pending"]

\* getTasks(input) is entered: offset, sort and where are functions of input.
GetTasksBegin(in) ==
    /\ pc = "idle"
    /\ pc' = "rows"
    /\ input' = in
    /\ UNCHANGED <<tasks, isolation, snapshot, data, total, countSource, result,
                   cacheVars>>

\* First statement of the transaction: the page of rows.
TxSelectRows(ok) ==
    /\ pc = "rows"
    /\ IF ok
       THEN /\ \E s \in Orderings(Matching(TxRead, Where(input)), OrderBy(input)) :
                   data' = Some(LimitOffset(s, input.per_page, Offset(input)))
            /\ snapshot' = Some(TxRead)
            /\ pc' = "count"
            /\ result' = result
       ELSE /\ result' = GetTasksCatch("storage")
            /\ pc' = "done"
            /\ UNCHANGED <<data, snapshot>>
    /\ UNCHANGED <<tasks, isolation, input, total, countSource, cacheVars>>

\* Second statement: the count; then the transaction ends and getTasks
\* returns.
TxSelectCount(ok) ==
    /\ pc = "count"
    /\ pc' = "done"
    /\ IF ok
       THEN LET n == Cardinality(Matching(TxRead, Where(input)))
            IN  /\ total' = Some(n)
                /\ countSource' = Some(TxRead)
                /\ result' = [outcome |-> "returned", data |-> Get(data),
                              pageCount |-> PageCount(n, input.per_page)]
       ELSE /\ result' = GetTasksCatch("storage")
            /\ UNCHANGED <<total, countSource>>
    /\ UNCHANGED <<tasks, isolation, input, snapshot, data, cacheVars>>

\* The caller has the result; the next request may start.
GetTasksReturn ==
    /\ pc = "done"
    /\ pc' = "idle"
    /\ input' = NoRequest
    /\ snapshot' = Undefined
    /\ data' = Undefined
    /\ total' = Undefined
    /\ countSource' = Undefined
    /\ result' = NoResult
    /\ UNCHANGED <<tasks, isolation, cacheVars>>

----------------------------------------------------------------------------
(* The aggregate counters behind unstable_cache *)

\* A shorter time-to-live.
revalidateMutant == 900 \div 3

revalidate == 900

\* Time passes in steps of half the time-to-live.
TimeStep == revalidate \div 2

StatusKey(status) == <<"task-status-", status>>
PriorityKey(priority) == <<"task-priority-", priority>>
StatusCountsKey == <<"task-status-", "counts">>
PriorityCountsKey == <<"task-priority-", "counts">>

\* An own tag that leaves the status value out.
StatusTagsMutant(status) == {<<"task-count">>, <<"task-status-">>}

StatusTags(status) == {<<"task-count">>, <<"task-status-", status>>}
PriorityTags(priority) == {<<"task-count">>, <<"task-priority-", priority>>}
StatusCountsTags == {<<"task-count">>, <<"task-status-", "counts">>}
PriorityCountsTags == {<<"task-count">>, <<"task-priority-", "counts">>}

Keys ==
    {StatusKey(s) : s \in StatusValues} \cup {PriorityKey(p) : p \in PriorityValues}
        \cup {StatusCountsKey, PriorityCountsKey}

Tags ==
    UNION ({StatusTags(s) : s \in StatusValues}
             \cup {PriorityTags(p) : p \in PriorityValues}
             \cup {StatusCountsTags, PriorityCountsTags})

\* select distinct count(*) ... where column = value group by column
\* having count(column) > 0, then res[0]?.count ?? 0
CountWhere(table, column, value) ==
    LET filtered == {row \in table : row[column] = value}
        groups == {row[column] : row \in filtered}
        counts == {Cardinality({row \in filtered : row[column] = g}) : g \in groups}
        res == {[count |-> n] : n \in {m \in counts : m > 0}}
    IN  IF res = {} THEN 0 ELSE (CHOOSE r \in res : TRUE).count

\* A grouped count with no having clause over every value of the column.
GroupCountsMutant(table, column) ==
    [g \in (IF column = "status" THEN StatusValues ELSE PriorityValues) |->
        Cardinality({row \in table : row[column] = g})]

\* select column, count(*) ... group by column having count(*) > 0, reduced
\* into an object keyed by the column's value
GroupCounts(table, column) ==
    LET groups == {row[column] : row \in table}
        res == {r \in {[value |-> g,
                        count |-> Cardinality({row \in table : row[column] = g})] :
                            g \in groups} : r.count > 0}
    IN  [g \in {r.value : r \in res} |->
            (CHOOSE r \in res : r.value = g).count]

\* Catch blocks that rethrow.
CountCatchMutant(err) == [outcome |-> "thrown", error |-> err]
CountsCatchMutant(err) == [outcome |-> "thrown", error |-> err]

\* The catch blocks of the cached callbacks.
CountCatch(err) == [outcome |-> "returned", value |-> 0]

CountsCatch(err) == [outcome |-> "returned", value |-> << >>]

\* The callbacks: try { return await query } catch { return fallback }
CountCallback(column, value, ok) ==
    IF ok
    THEN [outcome |-> "returned", value |-> CountWhere(tasks, column, value)]
    ELSE CountCatch("storage")

CountsCallback(column, ok) ==
    IF ok
    THEN [outcome |-> "returned", value |-> GroupCounts(tasks, column)]
    ELSE CountsCatch("storage")

\* An entry younger than revalidate seconds is served; an older one is not;
\* at exactly revalidate seconds either may happen.
Fresh(key) ==
    IF IsDefined(cacheStore[key])
    THEN now - Get(cacheStore[key]).storedAt <= revalidate
    ELSE FALSE

Stale(key) ==
    IF IsDefined(cacheStore[key])
    THEN now - Get(cacheStore[key]).storedAt >= revalidate
    ELSE TRUE

\* cache(cb, [key], {revalidate, tags})(): the entry is served, or cb runs
\* and what it returns is stored; an exception out of cb stores nothing.
CacheStore(key, tags, r) ==
    IF r.outcome = "returned"
    THEN [cacheStore EXCEPT
            ![key] = Some([value |-> r.value, storedAt |-> now, tags |-> tags])]
    ELSE cacheStore

CachedCall(op, arg, key, tags, cb, ok) ==
    \/ /\ Fresh(key)
       /\ last' = [op |-> op, arg |-> arg, hit |-> TRUE, queried |-> FALSE,
                   ok |-> TRUE, outcome |-> "returned",
                   value |-> Get(cacheStore[key]).value]
       /\ cacheStore' = cacheStore
    \/ /\ Stale(key)
       /\ last' = [op |-> op, arg |-> arg, hit |-> FALSE, queried |-> TRUE,
                   ok |-> ok, outcome |-> cb.outcome,
                   value |-> IF cb.outcome = "returned" THEN cb.value ELSE 0]
       /\ cacheStore' = CacheStore(key, tags, cb)

GetTaskCountByStatus(status, ok) ==
    /\ CachedCall("getTaskCountByStatus", status, StatusKey(status),
                  StatusTags(status),
                  CountCallback("status", status, ok), ok)
    /\ UNCHANGED <<tasks, isolation, taskVars, now>>

GetTaskCountByPriority(priority, ok) ==
    /\ CachedCall("getTaskCountByPriority", priority, PriorityKey(priority),
                  PriorityTags(priority),
                  CountCallback("priority", priority, ok), ok)
    /\ UNCHANGED <<tasks, isolation, taskVars, now>>

GetTaskStatusCounts(ok) ==
    /\ CachedCall("getTaskStatusCounts", "", StatusCountsKey, StatusCountsTags,
                  CountsCallback("status", ok), ok)
    /\ UNCHANGED <<tasks, isolation, taskVars, now>>

GetTaskPriorityCounts(ok) ==
    /\ CachedCall("getTaskPriorityCounts", "", PriorityCountsKey,
                  PriorityCountsTags,
                  CountsCallback("priority", ok), ok)
    /\ UNCHANGED <<tasks, isolation, taskVars, now>>

\* revalidateTag(tag), called by a write path: every entry carrying the tag
\* is dropped.
RevalidateTag(tag) ==
    /\ cacheStore' =
          [k \in Keys |->
              IF IsDefined(cacheStore[k]) /\ tag \in Get(cacheStore[k]).tags
              THEN Undefined
              ELSE cacheStore[k]]
    /\ last' = [op |-> "revalidateTag", tag |-> tag]
    /\ UNCHANGED <<tasks, isolation, taskVars, now>>

Tick ==
    /\ now + TimeStep <= MaxTime
    /\ now' = now + TimeStep
    /\ last' = [op |-> "tick"]
    /\ UNCHANGED <<tasks, isolation, taskVars, cacheStore>>

----------------------------------------------------------------------------
(* Writers to the task table (other requests, outside this file).  Once   *)
(* getTasks has its result the table no longer matters to it.              *)

InsertTask(t) ==
    /\ pc # "done"
    /\ t \notin tasks
    /\ tasks' = tasks \cup {t}
    /\ last' = [op |-> "write"]
    /\ UNCHANGED <<isolation, taskVars, cacheStore, now>>

DeleteTask(t) ==
    /\ pc # "done"
    /\ t \in tasks
    /\ tasks' = tasks \ {t}
    /\ last' = [op |-> "write"]
    /\ UNCHANGED <<isolation, taskVars, cacheStore, now>>

----------------------------------------------------------------------------
(* Specifications *)

NoCall == [op |-> "none"]

Init ==
    /\ tasks = {}
    /\ isolation \in IsolationLevels
    /\ pc = "idle"
    /\ input = NoRequest
    /\ snapshot = Undefined
    /\ data = Undefined
    /\ total = Undefined
    /\ countSource = Undefined
    /\ result = NoResult
    /\ cacheStore = [k \in Keys |-> Undefined]
    /\ now = 0
    /\ last = NoCall

NextTasks ==
    \/ \E in \in Requests : GetTasksBegin(in)
    \/ \E ok \in BOOLEAN : TxSelectRows(ok)
    \/ \E ok \in BOOLEAN : TxSelectCount(ok)
    \/ GetTasksReturn
    \/ \E t \in Pool : InsertTask(t)
    \/ \E t \in Pool : DeleteTask(t)

SpecTasks == Init /\ [][NextTasks]_vars

\* The aggregate queries open no transaction: the isolation level plays no
\* part in them.
InitCache == Init /\ isolation = "read committed"

\* The four aggregates, invalidation and writers, at one instant.
NextCache ==
    \/ \E s \in StatusValues, ok \in BOOLEAN : GetTaskCountByStatus(s, ok)
    \/ \E p \in PriorityValues, ok \in BOOLEAN : GetTaskCountByPriority(p, ok)
    \/ \E ok \in BOOLEAN : GetTaskStatusCounts(ok)
    \/ \E ok \in BOOLEAN : GetTaskPriorityCounts(ok)
    \/ \E tag \in Tags : RevalidateTag(tag)
    \/ \E t \in CountedPool : InsertTask(t)
    \/ \E t \in CountedPool : DeleteTask(t)

SpecCache == InitCache /\ [][NextCache]_vars

\* The status aggregates as time passes.
NextTTL ==
    \/ \E s \in StatusValues, ok \in BOOLEAN : GetTaskCountByStatus(s, ok)
    \/ \E ok \in BOOLEAN : GetTaskStatusCounts(ok)
    \/ \E tag \in Tags : RevalidateTag(tag)
    \/ Tick
    \/ \E t \in CountedPool : InsertTask(t)
    \/ \E t \in CountedPool : DeleteTask(t)

SpecTTL == InitCache /\ [][NextTTL]_vars

----------------------------------------------------------------------------
(* Properties of getTasks, under SpecTasks *)

\* The call in flight has read its rows / has read its count.
RowsFetched == pc \in {"count", "done"} /\ IsDefined(data)
CountFetched == pc = "done" /\ IsDefined(total)

\* The predicates the request makes present, each as a filter of its own.
PresentPredicates == Range(Present(Expressions(input)))
Intersection(table) ==
    {row \in table : \A p \in PresentPredicates : row \in Matching(table, Some(p))}
Union(table) ==
    IF PresentPredicates = {}
    THEN table
    ELSE {row \in table : \E p \in PresentPredicates : row \in Matching(table, Some(p))}

\* The rows a fetch returns, when the filter selects `selected` of the table.
PageOf(selected, rows) ==
    \E s \in Orderings(selected, OrderBy(input)) :
        /\ Len(rows) = Min(input.per_page,
                           IF Len(s) > (input.page - 1) * input.per_page
                           THEN Len(s) - (input.page - 1) * input.per_page ELSE 0)
        /\ \A i \in 1..Len(rows) : rows[i] = s[(input.page - 1) * input.per_page + i]

\* C1: getTasks never raises: whenever the storage fails in the row fetch or
\* in the count fetch, the call returns the empty result, no rows and
\* pageCount 0; and every finished call has returned.
C1_StorageFailureGivesEmptyResult ==
    pc = "done" =>
        /\ result.outcome = "returned"
        /\ (~IsDefined(data) \/ ~IsDefined(total)) =>
              result.data = << >> /\ result.pageCount = 0

\* C1 witness: the count fetch failed after the row fetch had read rows, and
\* the call returned the empty result.
C1_Witness ==
    /\ pc = "done"
    /\ IsDefined(data) /\ Get(data) # << >>
    /\ ~IsDefined(total)
    /\ result = [outcome |-> "returned", data |-> << >>, pageCount |-> 0]

\* C2: the rows and the page count come from one table state: pageCount is
\* ceil(n / perPage) for n the number of rows matching the predicate in the
\* state the rows were read from.
C2_RowsAndCountFromOneSnapshot ==
    CountFetched =>
        LET n == Cardinality(Matching(Get(snapshot), Where(input)))
        IN  /\ result.pageCount * input.per_page >= n
            /\ (result.pageCount - 1) * input.per_page < n

\* C4 as stated: combinator "or" applies the union of the present predicates,
\* every other combinator ("and", unset, unrecognized) their intersection.
C4_CombinatorSelection ==
    /\ RowsFetched =>
          PageOf(IF input.operator = Some(<<"or">>)
                 THEN Union(Get(snapshot)) ELSE Intersection(Get(snapshot)),
                 Get(data))
    /\ CountFetched =>
          Get(total) = Cardinality(IF input.operator = Some(<<"or">>)
                                   THEN Union(Get(countSource))
                                   ELSE Intersection(Get(countSource)))

\* C4 amended: combinator "and", unset or empty applies the intersection of
\* the present predicates; every other combinator, "or" and any unrecognized
\* value alike, applies their union; with no predicate present every row
\* matches.
C4_CombinatorSelectionAmended ==
    LET isAnd == input.operator \in {Undefined, Some(<< >>), Some(<<"and">>)}
    IN  /\ RowsFetched =>
              PageOf(IF isAnd THEN Intersection(Get(snapshot))
                     ELSE Union(Get(snapshot)), Get(data))
        /\ CountFetched =>
              Get(total) = Cardinality(IF isAnd THEN Intersection(Get(countSource))
                                       ELSE Union(Get(countSource)))

\* C4 witness: an unrecognized combinator with two predicates present whose
\* union and intersection differ over the table read.
C4_Witness ==
    /\ CountFetched
    /\ input.operator = Some(<<"xor">>)
    /\ Cardinality(PresentPredicates) >= 2
    /\ Intersection(Get(countSource)) # Union(Get(countSource))
    /\ Get(total) = Cardinality(Union(Get(countSource)))
    /\ Get(total) > 0

\* The default order: creation time descending, ties by identifier descending.
DefaultOrdered(rows) ==
    \A i, j \in 1..Len(rows) :
        i < j => \/ rows[i].createdAt > rows[j].createdAt
                 \/ /\ rows[i].createdAt = rows[j].createdAt
                    /\ rows[i].id > rows[j].id

\* C5: with the sort unset, or naming no field of Task, the rows come in the
\* default order: creation time descending, ties by identifier descending.
C5_SortFallback ==
    (RowsFetched /\ ~(IsDefined(input.sort) /\ InTasks(Column(input)))) =>
        DefaultOrdered(Get(data))

\* C6: the fetch skips (page - 1) * perPage rows of the ordered selection and
\* returns at most perPage rows; on success pageCount is ceil(total /
\* perPage), 0 exactly when no row matches.
C6_PaginationArithmetic ==
    /\ RowsFetched =>
          /\ (input.page - 1) * input.per_page >= 0
          /\ Len(Get(data)) <= input.per_page
          /\ PageOf(Matching(Get(snapshot), Where(input)), Get(data))
    /\ CountFetched =>
          /\ result.outcome = "returned"
          /\ Get(total) = Cardinality(Matching(Get(countSource), Where(input)))
          /\ result.data = Get(data)
          /\ result.pageCount * input.per_page >= Get(total)
          /\ (result.pageCount - 1) * input.per_page < Get(total)
          /\ (result.pageCount = 0 <=> Get(total) = 0)

\* C6 witness: the second page of three matching rows, two to a page: one
\* row returned, two pages counted.
C6_Witness ==
    /\ CountFetched
    /\ input.page = 2 /\ input.per_page = 2
    /\ Get(total) = 3
    /\ Len(result.data) = 1
    /\ result.pageCount = 2

----------------------------------------------------------------------------
(* Properties of the cached aggregates, under SpecCache and SpecTTL *)

CountOps == {"getTaskCountByStatus", "getTaskCountByPriority"}
CountsOps == {"getTaskStatusCounts", "getTaskPriorityCounts"}

\* The step just taken was a call of op with argument arg.
Called(op, arg) == last'.op = op /\ last'.arg = arg

\* The step just taken invalidated one of the tags in `tags`.
Invalidated(tags) == last'.op = "revalidateTag" /\ last'.tag \in tags

\* What a call of an aggregate does with the entry under key, when the entry
\* carries `tags`: an entry younger than 900 seconds is returned as it is,
\* without a storage query; with no entry, or one older than 900 seconds, the
\* storage is queried and what the call returns is stored.
HitOrRecompute(key) ==
    LET e == cacheStore[key]
    IN  /\ (IF IsDefined(e) THEN now - Get(e).storedAt < 900 ELSE FALSE) =>
              /\ last'.hit /\ ~last'.queried
              /\ last'.outcome = "returned"
              /\ last'.value = Get(e).value
              /\ cacheStore' = cacheStore
        /\ (IF IsDefined(e) THEN now - Get(e).storedAt > 900 ELSE TRUE) =>
              /\ ~last'.hit /\ last'.queried
              /\ IsDefined(cacheStore'[key])
              /\ Get(cacheStore'[key]).value = last'.value
              /\ Get(cacheStore'[key]).storedAt = now

\* C3: a call getTaskCountByStatus(s) that finds no entry, or one older than
\* 900 seconds, queries the storage and stores the count it returns; the
\* entry then stays as it is until one of its tags is invalidated or a call
\* recomputes it, and every call within 900 seconds returns its value
\* without a storage query; an invalidation of one of its tags removes it.
C3_Step ==
    \A s \in StatusValues :
        LET key == <<"task-status-", s>>
            tags == {<<"task-count">>, <<"task-status-", s>>}
        IN  /\ Called("getTaskCountByStatus", s) =>
                  /\ HitOrRecompute(key)
                  /\ (last'.queried /\ last'.ok) =>
                        last'.value = Cardinality({row \in tasks : row.status = s})
            /\ Invalidated(tags) => cacheStore'[key] = Undefined
            /\ (~Called("getTaskCountByStatus", s) /\ ~Invalidated(tags)) =>
                  cacheStore'[key] = cacheStore[key]

\* C3, over every step: cache hit within 900 seconds, recomputation after
\* invalidation or expiry.
C3_CacheHitAndInvalidation == [][C3_Step]_vars

\* C3 witness: a call served from an entry stored 450 seconds earlier, whose
\* value is no longer the count in the table.
C3_Witness ==
    /\ last.op = "getTaskCountByStatus"
    /\ last.hit /\ ~last.queried
    /\ IsDefined(cacheStore[<<"task-status-", last.arg>>])
    /\ now - Get(cacheStore[<<"task-status-", last.arg>>]).storedAt = 450
    /\ last.value # Cardinality({row \in tasks : row.status = last.arg})

\* The entry under each key, as the claim names them.
EntrySpecificTag(key) == key

\* C7: every entry carries the shared tag and one tag of its own;
\* invalidating the shared tag removes every entry; invalidating an entry's
\* own tag removes that entry and leaves every other entry as it was, and a
\* call that finds its entry is served from it.
C7_Tags ==
    \A k \in Keys :
        IsDefined(cacheStore[k]) =>
            Get(cacheStore[k]).tags = {<<"task-count">>, EntrySpecificTag(k)}

C7_Step ==
    /\ last'.op = "revalidateTag" =>
          \A k \in Keys :
              cacheStore'[k] =
                  IF last'.tag \in {<<"task-count">>, EntrySpecificTag(k)}
                  THEN Undefined
                  ELSE cacheStore[k]
    /\ \A s \in StatusValues :
          (Called("getTaskCountByStatus", s) /\ IsDefined(cacheStore[StatusKey(s)]))
              => last'.hit /\ last'.value = Get(cacheStore[StatusKey(s)]).value
    /\ \A q \in PriorityValues :
          (Called("getTaskCountByPriority", q) /\ IsDefined(cacheStore[PriorityKey(q)]))
              => last'.hit /\ last'.value = Get(cacheStore[PriorityKey(q)]).value
    /\ (Called("getTaskStatusCounts", "") /\ IsDefined(cacheStore[StatusCountsKey]))
          => last'.hit /\ last'.value = Get(cacheStore[StatusCountsKey]).value
    /\ (Called("getTaskPriorityCounts", "") /\ IsDefined(cacheStore[PriorityCountsKey]))
          => last'.hit /\ last'.value = Get(cacheStore[PriorityCountsKey]).value

\* C7, in every state and over every step: the tags of each entry and what
\* an invalidation removes.
C7_SelectiveTagInvalidation == []C7_Tags /\ [][C7_Step]_vars

\* C7 witness: the tag of one status value was invalidated while every other
\* entry was cached; those five are still cached.
C7_Witness ==
    /\ last.op = "revalidateTag"
    /\ last.tag = <<"task-status-", "todo">>
    /\ cacheStore[<<"task-status-", "todo">>] = Undefined
    /\ \A k \in Keys \ {<<"task-status-", "todo">>} : IsDefined(cacheStore[k])

\* C8: no aggregate call raises; one whose storage query fails returns 0
\* (the counts by value) or the empty map (the grouped counts).
C8_AggregatesNeverThrow ==
    last.op \in (CountOps \cup CountsOps) =>
        /\ last.outcome = "returned"
        /\ (last.queried /\ ~last.ok) =>
              last.value = IF last.op \in CountOps THEN 0 ELSE << >>

\* C8 witness: a grouped count whose query failed over a table with rows.
C8_Witness ==
    /\ last.op = "getTaskPriorityCounts"
    /\ last.queried /\ ~last.ok
    /\ last.outcome = "returned" /\ last.value = << >>
    /\ tasks # {}

\* C9: computed on a miss, a grouped map has as keys exactly the values with
\* at least one row, each with its number of rows, and a count by value is
\* the number of rows with the value, 0 when there is none.
C9_ZeroCounts ==
    (last.op \in (CountOps \cup CountsOps) /\ last.queried /\ last.ok) =>
        LET column == IF last.op \in {"getTaskCountByStatus", "getTaskStatusCounts"}
                      THEN "status" ELSE "priority"
            rowsWith(v) == {row \in tasks : row[column] = v}
        IN  IF last.op \in CountOps
            THEN last.value = Cardinality(rowsWith(last.arg))
            ELSE /\ DOMAIN last.value =
                        {v \in StatusValues \cup PriorityValues :
                            \E row \in tasks : row[column] = v}
                 /\ \A v \in DOMAIN last.value :
                        last.value[v] = Cardinality(rowsWith(v)) /\ last.value[v] > 0

\* C9 witness: the status map computed over two "todo" rows and no "done"
\* row has the one key "todo".
C9_Witness ==
    /\ last.op = "getTaskStatusCounts"
    /\ last.queried /\ last.ok
    /\ \A row \in tasks : row.status = "todo"
    /\ Cardinality(tasks) = 2
    /\ DOMAIN last.value = {"todo"}
    /\ last.value["todo"] = 2

\* C10: a status aggregate that misses the cache while its storage query
\* fails stores its fallback (0, the empty map) as the entry, and every call
\* that finds the entry younger than 900 seconds returns it without a
\* storage query, whatever the table holds; the entry stays until a tag of
\* its is invalidated or a call recomputes it.
C10_Step ==
    /\ \A s \in StatusValues :
          /\ Called("getTaskCountByStatus", s) =>
                /\ HitOrRecompute(StatusKey(s))
                /\ (last'.queried /\ ~last'.ok) =>
                      last'.value = 0 /\ Get(cacheStore'[StatusKey(s)]).value = 0
          /\ (~Called("getTaskCountByStatus", s) /\ ~Invalidated(StatusTags(s))) =>
                cacheStore'[StatusKey(s)] = cacheStore[StatusKey(s)]
    /\ Called("getTaskStatusCounts", "") =>
          /\ HitOrRecompute(StatusCountsKey)
          /\ (last'.queried /\ ~last'.ok) =>
                last'.value = << >> /\ Get(cacheStore'[StatusCountsKey]).value = << >>
    /\ (~Called("getTaskStatusCounts", "") /\ ~Invalidated(StatusCountsTags)) =>
          cacheStore'[StatusCountsKey] = cacheStore[StatusCountsKey]

====
